---------------------------- MODULE Spec2Model ----------------------------
(***************************************************************************)
(* Model of src/src/pico_flexx_driver.cpp: the PicoFlexx frame pipeline    *)
(* (sensor callback onNewData, processing thread process, subscription     *)
(* callback callbackTopicStatus) and the restart loop of                   *)
(* PicoFlexxNodelet::onInit.                                               *)
(*                                                                         *)
(* Threads of control and their program counters:                          *)
(*   supPc   PicoFlexxNodelet::onInit (constructs, starts, watches, stops) *)
(*   procPc  PicoFlexx::process       (threadProcess)                      *)
(*   sensPc  PicoFlexx::onNewData     (the sensor SDK's callback thread)   *)
(*   ctsPc   PicoFlexx::callbackTopicStatus (ROS callback queue thread)    *)
(* Plain (non-atomic) fields read by one thread and written by another     *)
(* (running, iters_since_start, iters_since_data) are read and written in  *)
(* single steps: every read returns a value that was written.              *)
(***************************************************************************)
EXTENDS Integers, Sequences, FiniteSets, TLC

(* ------------------------------ constants ------------------------------ *)

\* static const int startup_ignore_iters = 15;
startup_ignore_iters == 15
\* static const int dropout_allow_iters = 5;
dropout_allow_iters == 5

\* enum Topics { CAMERA_INFO, MONO_16, DEPTH, NOISE, CLOUD, COUNT }
Topics == {"CAMERA_INFO", "MONO_16", "DEPTH", "NOISE", "CLOUD"}

(* ------------------------------- bounds -------------------------------- *)

\* Frames the sensor delivers over a whole behaviour (frame ids 1..MaxFrames).
MaxFrames == 2
\* PicoFlexx instances constructed over a whole behaviour (1 + restarts).
MaxInstances == 2
\* iters_since_data stops growing here once iters_since_start is saturated.
MaxItersData == 6
\* Heap cells for royale::DepthData copies (slot, local, one being built).
MaxObjects == 3
\* Points of the frame that extractData is followed on.
MaxPoints == 2

\* What getNumSubscribers() > 0 can report over the five publishers.
SubscriberSets ==
  { {}, {"DEPTH"}, {"CAMERA_INFO", "CLOUD"} }

\* Values an uninitialised int member may hold.
Indeterminate == {0, startup_ignore_iters}

ObjIds == 1..MaxObjects
NULL == 0
\* Content of a heap cell: FREE, or the id of the frame copied into it
\* (EMPTY: a DepthData just constructed, its fields not yet assigned).
FREE == -1
EMPTY == 0

VARIABLES
  rosok,      \* ros::ok()
  supPc,      \* position of onInit
  gen,        \* instances constructed so far
  alive,      \* number of PicoFlexx objects that exist (new / delete)
  init,       \* outcome of initialize(): "none" | "nodev" | "devfail" | "ok"
  running,    \* PicoFlexx::running
  capturing,  \* cameraDevice->isCapturing()
  status,     \* PicoFlexx::status, one flag per topic
  lockData,   \* owner of lockData:   "none" | "proc" | "sens"
  lockStatus, \* owner of lockStatus: "none" | "proc" | "cts"
  newData,    \* PicoFlexx::newData
  slotPtr,    \* PicoFlexx::data (unique_ptr), NULL or a heap cell
  localPtr,   \* process()'s local unique_ptr data
  heap,       \* heap cells of DepthData
  procPc,     \* position of process()
  iss,        \* iters_since_start
  isd,        \* iters_since_data
  sensPc,     \* position of onNewData
  deposited,  \* frames handed to onNewData so far (id of the one in flight)
  ctsPc,      \* position of callbackTopicStatus
  \* history variables
  lastDep,    \* id of the last frame whose deposit completed
  taken,      \* id of the frame swapped out by the last take
  depAtTake,  \* lastDep at the moment of the last take
  takes,      \* takes[f]: how often frame f was swapped out
  published,  \* id of the frame read by the last extractData/publish cycle
  consec,     \* wait timeouts reported since the last take / initialize()
  failedGen,  \* instance on which a start/stopCapture failure was recorded
  ticksDown,  \* isCurrent() evaluations begun after shutdown was requested
  runReset,   \* running was set to true after a failure was recorded
  ctsFail,    \* the callbackTopicStatus call in progress saw a sensor failure
  msg,        \* process()'s message containers, one per topic: EMPTY (a
              \* new message) or the id of the frame it was populated from
  pubMsg,     \* history: the messages handed to publish() in the cycle in
              \* progress, by topic
  cycStatus,  \* history: status as extractData of the cycle in progress saw it
  ctsPost     \* every call that returned without failure left
              \* isCapturing() equal to "some status flag is set"

\* extractData on one frame, point by point
VARIABLES
  xPts,       \* data.points: the frame's DepthPoints
  xMaxNoise,  \* PicoFlexx::maxNoise
  xStatus,    \* PicoFlexx::status during the call
  xPc,        \* position of extractData: "off" | "setup" | "loop" | "done"
  xIt,        \* the loop's index and its eight output pointers
  xCloud,     \* msgCloud->data as floats (5 per point)
  xDepth,     \* msgDepth->data as floats
  xNoise,     \* msgNoise->data as floats
  xMono       \* msgMono16->data as uint16

extVars ==
  << xPts, xMaxNoise, xStatus, xPc, xIt, xCloud, xDepth, xNoise, xMono >>

\* the configuration store: callbackConfig, onNewExposure, initialize
VARIABLES
  kPc,        \* "off" | "new" (constructed) | "ready" | "failed" (initialize)
  kStore,     \* PicoFlexx::config
  kMin,       \* PicoFlexx::configMin
  kMax,       \* PicoFlexx::configMax
  kMember,    \* PicoFlexx::maxNoise and PicoFlexx::rangeFactor
  kSensor,    \* the camera device: current use case, exposure mode and time
  kExpTimes,  \* PicoFlexx::exposureTimes (<< >> or one element)
  kCall       \* history: the last callbackConfig call, its arguments, what
              \* it handed back and what it did

cfgVars ==
  << kPc, kStore, kMin, kMax, kMember, kSensor, kExpTimes, kCall >>

\* the three mutexes and the four threads that take them
VARIABLES
  lkPc,       \* position of each thread, named by the source line it is at
  lkHeld,     \* the mutexes each thread holds, in the order it took them
  lkRun,      \* PicoFlexx::running && ros::ok()
  lkLevel     \* level of the callbackConfig call in progress

lkVars == << lkPc, lkHeld, lkRun, lkLevel >>

\* the timing counters: timings(), onNewData, callbackTopicStatus
VARIABLES
  tmFrame,        \* PicoFlexx::frame
  tmProcessTime,  \* PicoFlexx::processTime, as the frames whose processing
                  \* time has been added since it was last set to 0
  tmDelay,        \* PicoFlexx::delayReceived, as the frames whose reception
                  \* delay has been added since it was last set to 0
  tmCapturing,    \* cameraDevice->isCapturing()
  tmHanded,       \* frames handed to onNewData so far
  tmSens,         \* frame of the onNewData call in progress, or 0
  tmSlot,         \* frame in PicoFlexx::data with newData set, or 0
  tmDone,         \* history: the frames processed so far, in order
  tmWindow        \* history: what timings() found at the last window
                  \* boundary, << >> before the first

tmVars ==
  << tmFrame, tmProcessTime, tmDelay, tmCapturing, tmHanded, tmSens, tmSlot,
     tmDone, tmWindow >>

\* Variables of the other specifications, untouched by the frame pipeline.
offVars == << extVars, cfgVars, lkVars, tmVars >>

pipeVars ==
  << rosok, supPc, gen, alive, init, running, capturing, status, lockData,
     lockStatus, newData, slotPtr, localPtr, heap, procPc, iss, isd, sensPc,
     deposited, ctsPc, lastDep, taken, depAtTake, takes, published, consec,
     failedGen, ticksDown, runReset, ctsFail, ctsPost,
     msg, pubMsg, cycStatus >>

vars == << pipeVars, extVars, cfgVars, lkVars, tmVars >>

supVars  == << supPc, gen, alive, init >>
slotVars == << newData, slotPtr, localPtr, heap >>
histSlot == << lastDep, taken, depAtTake, takes, published >>
histFail == << failedGen, ticksDown, runReset >>
pubVars  == << msg, pubMsg, cycStatus >>

NoStatus == [t \in Topics |-> FALSE]
EmptyHeap == [o \in ObjIds |-> FREE]
\* msgX = XPtr(new X) for the five containers
NewMsgs == [t \in Topics |-> EMPTY]
NoMsgs == [t \in {} |-> EMPTY]

(* ------------------------------ helpers -------------------------------- *)

\* A verdict that needs both counters below their thresholds.
isCurrentBoth(sinceData, sinceStart) ==
  (sinceData < dropout_allow_iters) /\ (sinceStart < startup_ignore_iters)

\* bool isCurrent()
isCurrent(sinceData, sinceStart) ==
  (sinceData < dropout_allow_iters) \/ (sinceStart < startup_ignore_iters)

\* A startup counter that starts over instead of staying at its top value.
IncStartWrap(n) == IF n <= startup_ignore_iters THEN n + 1 ELSE 0

\* if (iters_since_start <= startup_ignore_iters) iters_since_start++;
IncStart(n) == IF n <= startup_ignore_iters THEN n + 1 ELSE n

\* new royale::DepthData: the allocator hands out a free cell.
Alloc(h) == CHOOSE o \in ObjIds : h[o] = FREE /\ \A p \in ObjIds : h[p] = FREE => o <= p

\* unique_ptr release of cell o (NULL: nothing to release).
Release(h, o) == IF o = NULL THEN h ELSE [h EXCEPT ![o] = FREE]

\* Frame id read through pointer p (NULL or a released cell: no frame).
Deref(h, p) == IF p = NULL THEN FREE ELSE h[p]

\* A crashed process takes no further step.
Up == supPc # "crashed"

TypeOK ==
  /\ rosok \in BOOLEAN /\ alive \in 0..MaxInstances /\ running \in BOOLEAN
  /\ capturing \in BOOLEAN /\ newData \in BOOLEAN
  /\ supPc \in {"construct", "init", "setrun", "loop", "check", "stopcap",
                "clear", "join", "delete", "cooldown", "exited", "crashed"}
  /\ gen \in 0..MaxInstances
  /\ init \in {"none", "nodev", "devfail", "ok"}
  /\ status \in [Topics -> BOOLEAN]
  /\ lockData \in {"none", "proc", "sens"}
  /\ lockStatus \in {"none", "proc", "cts"}
  /\ slotPtr \in ObjIds \cup {NULL} /\ localPtr \in ObjIds \cup {NULL}
  /\ heap \in [ObjIds -> FREE..MaxFrames]
  /\ procPc \in {"none", "entry", "loop", "wait", "blocked", "extract",
                 "publish", "timing", "relock", "done"}
  /\ iss \in 0..(startup_ignore_iters + 1)
  /\ isd \in 0..(MaxItersData + startup_ignore_iters + 1)
  /\ sensPc \in {"idle", "lock", "fill"}
  /\ deposited \in 0..MaxFrames
  /\ ctsPc \in {"idle", "start", "stop", "ret"}
  /\ lastDep \in 0..MaxFrames /\ taken \in FREE..MaxFrames
  /\ depAtTake \in 0..MaxFrames
  /\ takes \in [1..MaxFrames -> 0..MaxFrames]
  /\ published \in FREE..MaxFrames
  /\ consec \in Nat
  /\ failedGen \in 0..MaxInstances /\ ticksDown \in Nat
  /\ runReset \in BOOLEAN /\ ctsFail \in BOOLEAN /\ ctsPost \in BOOLEAN
  /\ msg \in [Topics -> FREE..MaxFrames]
  /\ DOMAIN pubMsg \subseteq Topics
  /\ cycStatus \in [Topics -> BOOLEAN]

PipeInit ==
  /\ rosok = TRUE
  /\ supPc = "construct" /\ gen = 0 /\ alive = 0 /\ init = "none"
  /\ running = FALSE /\ capturing = FALSE /\ status = NoStatus
  /\ lockData = "none" /\ lockStatus = "none"
  /\ newData = FALSE /\ slotPtr = NULL /\ localPtr = NULL /\ heap = EmptyHeap
  /\ procPc = "none" /\ iss = 0 /\ isd = 0
  /\ sensPc = "idle" /\ deposited = 0 /\ ctsPc = "idle"
  /\ lastDep = 0 /\ taken = 0 /\ depAtTake = 0
  /\ takes = [f \in 1..MaxFrames |-> 0] /\ published = 0
  /\ consec = 0
  /\ failedGen = 0 /\ ticksDown = 0 /\ runReset = FALSE
  /\ ctsFail = FALSE /\ ctsPost = TRUE
  /\ msg = NewMsgs /\ pubMsg = NoMsgs /\ cycStatus = NoStatus

\* No extractData call is being followed point by point.
ExtIdle ==
  /\ xPts = << >> /\ xMaxNoise = 0 /\ xStatus = NoStatus /\ xPc = "off"
  /\ xIt = << >> /\ xCloud = << >> /\ xDepth = << >> /\ xNoise = << >>
  /\ xMono = << >>

\* The configuration store is not being followed.
CfgIdle ==
  /\ kPc = "off" /\ kStore = << >> /\ kMin = << >> /\ kMax = << >>
  /\ kMember = << >> /\ kSensor = << >> /\ kExpTimes = << >>
  /\ kCall = << >>

\* The mutexes are not followed.
LkIdle ==
  /\ lkPc = << >> /\ lkHeld = << >> /\ lkRun = FALSE /\ lkLevel = {}

\* The timing counters are not followed.
TmIdle ==
  /\ tmFrame = 0 /\ tmProcessTime = {} /\ tmDelay = {}
  /\ tmCapturing = FALSE /\ tmHanded = 0 /\ tmSens = 0 /\ tmSlot = 0
  /\ tmDone = << >> /\ tmWindow = << >>

Init == PipeInit /\ ExtIdle /\ CfgIdle /\ LkIdle /\ TmIdle


(* ------------------- sensor callback: onNewData ------------------------ *)

\* The SDK calls onNewData(frame) while the device captures.  The lockTiming
\* section (delayReceived += ...) is taken and released within this step.
S_Begin ==
  /\ Up
  /\ sensPc = "idle" /\ alive > 0 /\ init = "ok" /\ capturing
  /\ deposited < MaxFrames
  /\ deposited' = deposited + 1
  /\ sensPc' = "lock"
  /\ UNCHANGED << rosok, supVars, running, capturing, status, lockData,
                  lockStatus, slotVars, procPc, iss, isd, ctsPc, histSlot,
                  consec, histFail, ctsFail, ctsPost >>
  /\ UNCHANGED pubVars
  /\ UNCHANGED offVars

\* lockData.lock(); this->data = unique_ptr(new DepthData): the new object is
\* built first, then the slot's previous object is released.
S_Lock ==
  /\ Up
  /\ sensPc = "lock" /\ lockData = "none"
  /\ lockData' = "sens"
  /\ LET o == Alloc(heap)
     IN /\ heap' = [Release(heap, slotPtr) EXCEPT ![o] = EMPTY]
        /\ slotPtr' = o
  /\ sensPc' = "fill"
  /\ UNCHANGED << rosok, supVars, running, capturing, status, lockStatus,
                  newData, localPtr, procPc, iss, isd, deposited, ctsPc,
                  histSlot, consec, histFail, ctsFail, ctsPost >>
  /\ UNCHANGED pubVars
  /\ UNCHANGED offVars

\* this->data->... = data->...; newData = true; lockData.unlock();
\* cvNewData.notify_one();
S_Fill ==
  /\ Up
  /\ sensPc = "fill"
  /\ heap' = [heap EXCEPT ![slotPtr] = deposited]
  /\ newData' = TRUE
  /\ lockData' = "none"
  /\ sensPc' = "idle"
  /\ lastDep' = deposited
  /\ UNCHANGED << rosok, supVars, running, capturing, status, lockStatus,
                  slotPtr, localPtr, procPc, iss, isd, deposited, ctsPc,
                  taken, depAtTake, takes, published, consec, histFail,
                  ctsFail, ctsPost >>
  /\ UNCHANGED pubVars
  /\ UNCHANGED offVars

(* ------------------- processing thread: process ------------------------ *)

\* History of a take that swaps out the frame behind pointer p.
NoteTake(p) ==
  LET f == Deref(heap, p)
  IN /\ taken' = f
     /\ depAtTake' = lastDep
     /\ takes' = IF f \in 1..MaxFrames THEN [takes EXCEPT ![f] = @ + 1] ELSE takes
     /\ consec' = 0

\* A take that keeps pointing at the slot's object instead of swapping.
TakeAlias ==
  /\ isd' = 0
  /\ localPtr' = slotPtr /\ slotPtr' = slotPtr
  /\ heap' = IF localPtr = slotPtr THEN heap ELSE Release(heap, localPtr)
  /\ newData' = FALSE
  /\ lockData' = "none"
  /\ procPc' = "extract"
  /\ NoteTake(slotPtr)

\* A take that forgets to clear newData.
TakeNoClear ==
  /\ isd' = 0
  /\ localPtr' = slotPtr /\ slotPtr' = localPtr
  /\ heap' = heap
  /\ newData' = newData
  /\ lockData' = "none"
  /\ procPc' = "extract"
  /\ NoteTake(slotPtr)

\* A take that leaves iters_since_data as it is.
TakeNoReset ==
  /\ isd' = isd
  /\ localPtr' = slotPtr /\ slotPtr' = localPtr
  /\ heap' = heap
  /\ newData' = FALSE
  /\ lockData' = "none"
  /\ procPc' = "extract"
  /\ NoteTake(slotPtr)

\* iters_since_data = 0; this->data.swap(data); newData = false; lock.unlock();
Take ==
  /\ isd' = 0
  /\ localPtr' = slotPtr /\ slotPtr' = localPtr
  /\ heap' = heap
  /\ newData' = FALSE
  /\ lockData' = "none"
  /\ procPc' = "extract"
  /\ NoteTake(slotPtr)

\* A timed-out wait that reports the timeout without looking at newData.
WaitTimedOutBlind(nd) == TRUE

\* wait_for(lock, 300ms, pred) at its timeout returns pred(), evaluated with
\* lockData held: it reports a timeout exactly when newData is false.
WaitTimedOut(nd) == ~nd

\* std::unique_lock<std::mutex> lock(lockData);
P_Entry ==
  /\ Up
  /\ procPc = "entry" /\ lockData = "none"
  /\ lockData' = "proc"
  /\ procPc' = "loop"
  /\ UNCHANGED << rosok, supVars, running, capturing, status, lockStatus,
                  slotVars, iss, isd, sensPc, deposited, ctsPc, histSlot,
                  consec, histFail, ctsFail, ctsPost >>
  /\ UNCHANGED pubVars
  /\ UNCHANGED offVars

\* A loop condition that does not look at running.
LoopCondNoRun(run, ok) == ok

\* while(running && ros::ok())
LoopCond(run, ok) == run /\ ok

\* while(running && ros::ok()) { if (iters_since_start <= ...) ++; ... }
\* (leaving the loop ends the thread: the unique_lock and the local data
\* pointer are destroyed)
P_Loop ==
  /\ Up
  /\ procPc = "loop"
  /\ IF LoopCond(running, rosok)
       THEN /\ iss' = IncStart(iss)
            /\ procPc' = "wait"
            /\ UNCHANGED << lockData, localPtr, heap, msg >>
       ELSE /\ iss' = iss
            /\ procPc' = "done"
            /\ lockData' = "none"
            /\ heap' = Release(heap, localPtr)
            /\ localPtr' = NULL
            /\ msg' = NewMsgs
  /\ UNCHANGED << pubMsg, cycStatus >>
  /\ UNCHANGED << rosok, supVars, running, capturing, status, lockStatus,
                  newData, slotPtr, isd, sensPc, deposited, ctsPc, histSlot,
                  consec, histFail, ctsFail, ctsPost >>
  /\ UNCHANGED offVars

\* wait_for entered with the predicate already true: no blocking.
P_WaitTake ==
  /\ Up
  /\ procPc = "wait" /\ newData
  /\ Take
  /\ UNCHANGED << rosok, supVars, running, capturing, status, lockStatus,
                  iss, sensPc, deposited, ctsPc, lastDep, published, histFail, ctsFail, ctsPost >>
  /\ UNCHANGED pubVars
  /\ UNCHANGED offVars

\* wait_for entered with the predicate false: lockData is released and the
\* thread blocks on cvNewData (one atomic step of the condition variable).
P_WaitBlock ==
  /\ Up
  /\ procPc = "wait" /\ ~newData
  /\ lockData' = "none"
  /\ procPc' = "blocked"
  /\ UNCHANGED << rosok, supVars, running, capturing, status, lockStatus,
                  slotVars, iss, isd, sensPc, deposited, ctsPc, histSlot,
                  consec, histFail, ctsFail, ctsPost >>
  /\ UNCHANGED pubVars
  /\ UNCHANGED offVars

\* Woken by notify_one (or spuriously): lockData is re-acquired and the
\* predicate holds, so wait_for returns true.  A wake-up that finds the
\* predicate false goes back to waiting and changes nothing.
P_Wake ==
  /\ Up
  /\ procPc = "blocked" /\ lockData = "none" /\ newData
  /\ Take
  /\ UNCHANGED << rosok, supVars, running, capturing, status, lockStatus,
                  iss, sensPc, deposited, ctsPc, lastDep, published, histFail, ctsFail, ctsPost >>
  /\ UNCHANGED pubVars
  /\ UNCHANGED offVars

\* Bound of the model: once iters_since_start has saturated, a running loop
\* stops counting timeouts at MaxItersData (the code counts on).
MayTimeOut ==
  \/ isd < MaxItersData
  \/ iss <= startup_ignore_iters
  \/ ~(running /\ rosok)

\* The 300 ms elapse: lockData is re-acquired and wait_for returns pred().
\* false: iters_since_data++; continue;     true: as in P_Wake.
P_Timeout ==
  /\ Up
  /\ procPc = "blocked" /\ lockData = "none"
  /\ IF WaitTimedOut(newData)
       THEN /\ MayTimeOut
            /\ isd' = isd + 1
            /\ consec' = consec + 1
            /\ lockData' = "proc"
            /\ procPc' = "loop"
            /\ UNCHANGED << slotVars, taken, depAtTake, takes >>
       ELSE Take
  /\ UNCHANGED << rosok, supVars, running, capturing, status, lockStatus,
                  iss, sensPc, deposited, ctsPc, lastDep, published, histFail,
                  ctsFail, ctsPost >>
  /\ UNCHANGED pubVars
  /\ UNCHANGED offVars

ImageTopics == {"MONO_16", "DEPTH", "NOISE", "CLOUD"}

\* An extraction whose early return forgets the CLOUD flag.
ExtractMsgsNoCloud(st, m, f) ==
  [t \in Topics |->
     IF t = "CAMERA_INFO"
       THEN IF st[t] THEN f ELSE m[t]
       ELSE IF st["MONO_16"] \/ st["DEPTH"] \/ st["NOISE"] THEN f ELSE m[t]]

\* extractData at the granularity of whole messages: msgCameraInfo is
\* filled when status[CAMERA_INFO]; unless none of the four image flags is
\* set (early return), all four image containers are filled from the frame.
ExtractMsgs(st, m, f) ==
  [t \in Topics |->
     IF t = "CAMERA_INFO"
       THEN IF st[t] THEN f ELSE m[t]
       ELSE IF \E i \in ImageTopics : st[i] THEN f ELSE m[t]]

\* publish(): every flagged container is replaced by a new message.
FreshMsgs(st, m) == [t \in Topics |-> IF st[t] THEN EMPTY ELSE m[t]]

\* lockStatus.lock(); extractData(*data, ...);
P_Extract ==
  /\ Up
  /\ procPc = "extract" /\ lockStatus = "none"
  /\ lockStatus' = "proc"
  /\ msg' = ExtractMsgs(status, msg, Deref(heap, localPtr))
  /\ cycStatus' = status
  /\ pubMsg' = pubMsg
  /\ procPc' = "publish"
  /\ UNCHANGED << rosok, supVars, running, capturing, status, lockData,
                  slotVars, iss, isd, sensPc, deposited, ctsPc, histSlot,
                  consec, histFail, ctsFail, ctsPost >>
  /\ UNCHANGED offVars

\* publish(...); lockStatus.unlock();
P_Publish ==
  /\ Up
  /\ procPc = "publish"
  /\ published' = Deref(heap, localPtr)
  /\ pubMsg' = [t \in {u \in Topics : status[u]} |-> msg[t]]
  /\ msg' = FreshMsgs(status, msg)
  /\ cycStatus' = cycStatus
  /\ lockStatus' = "none"
  /\ procPc' = "timing"
  /\ UNCHANGED << rosok, supVars, running, capturing, status, lockData,
                  slotVars, iss, isd, sensPc, deposited, ctsPc, lastDep,
                  taken, depAtTake, takes, consec, histFail,
                  ctsFail, ctsPost >>
  /\ UNCHANGED offVars

\* lockTiming.lock(); processTime += ...; timings(); lockTiming.unlock();
P_Timing ==
  /\ Up
  /\ procPc = "timing"
  /\ procPc' = "relock"
  /\ pubMsg' = NoMsgs /\ cycStatus' = NoStatus /\ msg' = msg
  /\ UNCHANGED << rosok, supVars, running, capturing, status, lockData,
                  lockStatus, slotVars, iss, isd, sensPc, deposited, ctsPc,
                  histSlot, consec, histFail, ctsFail, ctsPost >>
  /\ UNCHANGED offVars

\* lock.lock();
P_Relock ==
  /\ Up
  /\ procPc = "relock" /\ lockData = "none"
  /\ lockData' = "proc"
  /\ procPc' = "loop"
  /\ UNCHANGED << rosok, supVars, running, capturing, status, lockStatus,
                  slotVars, iss, isd, sensPc, deposited, ctsPc, histSlot,
                  consec, histFail, ctsFail, ctsPost >>
  /\ UNCHANGED pubVars
  /\ UNCHANGED offVars


(* -------------- subscription callback: callbackTopicStatus ------------- *)

\* if(clientsConnected && !isCapturing()) start
\* else if(!clientsConnected && isCapturing()) stop
Decide(clients, cap) ==
  IF clients /\ ~cap THEN "start"
  ELSE IF ~clients /\ cap THEN "stop"
  ELSE "ret"

\* A failure branch that forgets ros::shutdown().
CaptureFailedNoShutdown ==
  /\ running' = FALSE
  /\ rosok' = rosok
  /\ failedGen' = gen
  /\ ctsFail' = TRUE
  /\ capturing' = capturing

\* OUT_ERROR(...); running = false; ros::shutdown();
CaptureFailed ==
  /\ running' = FALSE
  /\ rosok' = FALSE
  /\ failedGen' = gen
  /\ ctsFail' = TRUE
  /\ capturing' = capturing

\* lockStatus.lock(); status[i] = getNumSubscribers() > 0 for every topic;
\* then the two isCapturing() tests.  The callbacks exist from setTopics()
\* in initialize() until the publishers are destroyed, and are no longer
\* dispatched once ROS is shut down.
C_Begin ==
  /\ Up
  /\ ctsPc = "idle" /\ alive > 0 /\ init = "ok" /\ rosok
  /\ lockStatus = "none"
  /\ lockStatus' = "cts"
  /\ \E subs \in SubscriberSets :
       /\ status' = [t \in Topics |-> t \in subs]
       /\ ctsPc' = Decide(subs # {}, capturing)
  /\ ctsFail' = FALSE
  /\ UNCHANGED << rosok, supVars, running, capturing, lockData, slotVars,
                  procPc, iss, isd, sensPc, deposited, histSlot, consec,
                  histFail, ctsPost >>
  /\ UNCHANGED pubVars
  /\ UNCHANGED offVars

\* lockTiming section (processTime = frame = delayReceived = 0), then
\* cameraDevice->startCapture() and its failure branch.
C_Start ==
  /\ Up
  /\ ctsPc = "start"
  /\ \/ /\ capturing' = TRUE
        /\ UNCHANGED << rosok, running, failedGen, ctsFail >>
     \/ CaptureFailed
  /\ ctsPc' = "ret"
  /\ UNCHANGED << supVars, status, lockData, lockStatus, slotVars, procPc,
                  iss, isd, sensPc, deposited, histSlot, consec, ticksDown, runReset, ctsPost >>
  /\ UNCHANGED pubVars
  /\ UNCHANGED offVars

\* cameraDevice->stopCapture() and its failure branch.
C_Stop ==
  /\ Up
  /\ ctsPc = "stop"
  /\ \/ /\ capturing' = FALSE
        /\ UNCHANGED << rosok, running, failedGen, ctsFail >>
     \/ CaptureFailed
  /\ ctsPc' = "ret"
  /\ UNCHANGED << supVars, status, lockData, lockStatus, slotVars, procPc,
                  iss, isd, sensPc, deposited, histSlot, consec, ticksDown, runReset, ctsPost >>
  /\ UNCHANGED pubVars
  /\ UNCHANGED offVars

\* lockStatus.unlock(); return
C_Return ==
  /\ Up
  /\ ctsPc = "ret"
  /\ lockStatus' = "none"
  /\ ctsPc' = "idle"
  /\ ctsPost' = (ctsPost /\ (ctsFail \/ (capturing <=> \E t \in Topics : status[t])))
  /\ UNCHANGED << rosok, supVars, running, capturing, status, lockData,
                  slotVars, procPc, iss, isd, sensPc, deposited, histSlot,
                  consec, histFail, ctsFail >>
  /\ UNCHANGED pubVars
  /\ UNCHANGED offVars

(* ------------------ supervisor: PicoFlexxNodelet::onInit --------------- *)

\* picoFlexx = new PicoFlexx(...): the constructor sets running, newData and
\* status; iters_since_start and iters_since_data are left uninitialised.
Sup_Construct ==
  /\ supPc = "construct" /\ gen < MaxInstances
  /\ gen' = gen + 1 /\ alive' = alive + 1 /\ init' = "none"
  /\ running' = FALSE /\ newData' = FALSE /\ status' = NoStatus
  /\ capturing' = FALSE
  /\ slotPtr' = NULL
  /\ lockData' = "none" /\ lockStatus' = "none"
  /\ procPc' = "none"
  /\ iss' \in Indeterminate /\ isd' \in Indeterminate
  /\ consec' = 0
  /\ supPc' = "init"
  /\ UNCHANGED << rosok, localPtr, heap, sensPc, deposited, ctsPc, histSlot,
                  histFail, ctsFail, ctsPost >>
  /\ UNCHANGED pubVars
  /\ UNCHANGED offVars

\* start(): initialize().  It fails with no camera device created ("nodev"),
\* or with a device that could not be set up ("devfail"); on success the
\* topics are advertised (setTopics) and both counters are set to 0.
Sup_Init ==
  /\ supPc = "init"
  /\ \/ /\ init' \in {"nodev", "devfail"}
        /\ supPc' = "loop"
        /\ UNCHANGED << iss, isd, consec >>
     \/ /\ init' = "ok"
        /\ iss' = 0 /\ isd' = 0 /\ consec' = 0
        /\ supPc' = "setrun"
  /\ UNCHANGED << rosok, gen, alive, running, capturing, status, lockData,
                  lockStatus, slotVars, procPc, sensPc, deposited, ctsPc,
                  histSlot, histFail, ctsFail, ctsPost >>
  /\ UNCHANGED pubVars
  /\ UNCHANGED offVars

\* start(): running = true; threadProcess = std::thread(&process, this);
\* (the sleep after a restart and loop_rate.sleep() are part of the step
\* that leads back to the loop test)
Sup_SetRun ==
  /\ supPc = "setrun"
  /\ running' = TRUE
  /\ procPc' = "entry"
  /\ runReset' = (runReset \/ failedGen = gen)
  /\ supPc' = "loop"
  /\ UNCHANGED << rosok, gen, alive, init, capturing, status, lockData,
                  lockStatus, slotVars, iss, isd, sensPc, deposited, ctsPc,
                  histSlot, consec, failedGen, ticksDown, ctsFail,
                  ctsPost >>
  /\ UNCHANGED pubVars
  /\ UNCHANGED offVars

\* while (ros::ok())
LoopTest(ok) == ok

Sup_Loop ==
  /\ supPc = "loop"
  /\ IF LoopTest(rosok)
       THEN /\ supPc' = "check"
            /\ ticksDown' = IF failedGen # 0 THEN ticksDown + 1 ELSE ticksDown
       ELSE /\ supPc' = "exited"
            /\ ticksDown' = ticksDown
  /\ UNCHANGED << rosok, gen, alive, init, running, capturing, status,
                  lockData, lockStatus, slotVars, procPc, iss, isd, sensPc,
                  deposited, ctsPc, histSlot, consec, failedGen,
                  runReset, ctsFail, ctsPost >>
  /\ UNCHANGED pubVars
  /\ UNCHANGED offVars

\* if (!picoFlexx->isCurrent()) { ... restart ... }  loop_rate.sleep();
Sup_Check ==
  /\ supPc = "check"
  /\ supPc' = IF isCurrent(isd, iss) THEN "loop" ELSE "stopcap"
  /\ UNCHANGED << rosok, gen, alive, init, running, capturing, status,
                  lockData, lockStatus, slotVars, procPc, iss, isd, sensPc,
                  deposited, ctsPc, histSlot, consec, histFail,
                  ctsFail, ctsPost >>
  /\ UNCHANGED pubVars
  /\ UNCHANGED offVars

\* stop(): cameraDevice->stopCapture(); the result is ignored.  With no
\* device the call goes through a null unique_ptr and the process dies.
Sup_StopCap ==
  /\ supPc = "stopcap"
  /\ IF init = "nodev"
       THEN /\ supPc' = "crashed"
            /\ capturing' = capturing
       ELSE /\ supPc' = "clear"
            /\ capturing' \in {FALSE, capturing}
  /\ UNCHANGED << rosok, gen, alive, init, running, status, lockData,
                  lockStatus, slotVars, procPc, iss, isd, sensPc, deposited,
                  ctsPc, histSlot, consec, histFail, ctsFail,
                  ctsPost >>
  /\ UNCHANGED pubVars
  /\ UNCHANGED offVars

\* stop(): running = false;
Sup_Clear ==
  /\ supPc = "clear"
  /\ running' = FALSE
  /\ supPc' = "join"
  /\ UNCHANGED << rosok, gen, alive, init, capturing, status, lockData,
                  lockStatus, slotVars, procPc, iss, isd, sensPc, deposited,
                  ctsPc, histSlot, consec, histFail, ctsFail,
                  ctsPost >>
  /\ UNCHANGED pubVars
  /\ UNCHANGED offVars

\* A join that returns while the thread is still running.
JoinReturnsEarly(pc) == TRUE

\* threadProcess.join() returns once process() has returned.
JoinReturns(pc) == pc = "done"

\* stop(): threadProcess.join();  A thread that was never started is not
\* joinable: join() throws std::system_error, nothing catches it.
Sup_Join ==
  /\ supPc = "join"
  /\ IF procPc = "none"
       THEN supPc' = "crashed"
       ELSE /\ JoinReturns(procPc)
            /\ supPc' = "delete"
  /\ UNCHANGED << rosok, gen, alive, init, running, capturing, status,
                  lockData, lockStatus, slotVars, procPc, iss, isd, sensPc,
                  deposited, ctsPc, histSlot, consec, histFail,
                  ctsFail, ctsPost >>
  /\ UNCHANGED pubVars
  /\ UNCHANGED offVars

\* delete picoFlexx: the members (publishers, camera device, data, mutexes)
\* are destroyed.  A callback still executing in the object then runs on
\* freed memory: the process dies, or goes on without that callback.
Sup_Delete ==
  /\ supPc = "delete"
  /\ alive' = alive - 1
  /\ capturing' = FALSE /\ status' = NoStatus
  /\ newData' = FALSE /\ slotPtr' = NULL
  /\ heap' = Release(heap, slotPtr)
  /\ lockData' = "none" /\ lockStatus' = "none"
  /\ sensPc' = "idle" /\ ctsPc' = "idle"
  /\ IF sensPc # "idle" \/ ctsPc # "idle"
       THEN supPc' \in {"cooldown", "crashed"}
       ELSE supPc' = "cooldown"
  /\ UNCHANGED << rosok, gen, init, running, localPtr, procPc, iss, isd,
                  deposited, histSlot, consec, histFail, ctsFail,
                  ctsPost >>
  /\ UNCHANGED pubVars
  /\ UNCHANGED offVars

\* ros::Duration(1.0).sleep();
Sup_Cooldown ==
  /\ supPc = "cooldown"
  /\ supPc' = "construct"
  /\ UNCHANGED << rosok, gen, alive, init, running, capturing, status,
                  lockData, lockStatus, slotVars, procPc, iss, isd, sensPc,
                  deposited, ctsPc, histSlot, consec, histFail,
                  ctsFail, ctsPost >>
  /\ UNCHANGED pubVars
  /\ UNCHANGED offVars

(* ------------------------------ environment ---------------------------- *)

\* ROS is shut down from outside (SIGINT, master): ros::ok() turns false.
Env_Shutdown ==
  /\ Up
  /\ rosok
  /\ rosok' = FALSE
  /\ UNCHANGED << supVars, running, capturing, status, lockData, lockStatus,
                  slotVars, procPc, iss, isd, sensPc, deposited, ctsPc,
                  histSlot, consec, histFail, ctsFail, ctsPost >>
  /\ UNCHANGED pubVars
  /\ UNCHANGED offVars

(* ------------------- extractData, point by point ----------------------- *)

\* std::numeric_limits<float>::quiet_NaN(), a value no input carries
NaN == -1
\* itCX += 5, ...: floats per cloud record
CloudStride == 5

\* Input values: depthConfidence is a uint8_t, noise and maxNoise are floats
\* (here in units that make the boundary noise == maxNoise an input).
Confidences == {0, 1, 255}
Noises == {6, 7, 8}
MaxNoises == {7}
Coords ==
  { [x |-> 11, y |-> 12, z |-> 13, grayValue |-> 14],
    [x |-> 21, y |-> 22, z |-> 23, grayValue |-> 24] }
PointSet ==
  { [x |-> c.x, y |-> c.y, z |-> c.z, grayValue |-> c.grayValue,
     noise |-> n, depthConfidence |-> k] :
       c \in Coords, n \in Noises, k \in Confidences }
PointSeqs == UNION { [1..n -> PointSet] : n \in 1..MaxPoints }
StatusSets == { [t \in Topics |-> t \in subs] : subs \in SubscriberSets }

\* A validity test that lets noise == maxNoise pass.
ValidLe(p, mn) == p.depthConfidence # 0 /\ p.noise <= mn

\* if (itI->depthConfidence && itI->noise < maxNoise)
Valid(p, mn) == p.depthConfidence # 0 /\ p.noise < mn

\* ++i, ++itI, itCX += 5, itCY += 5, itCZ += 5, itCN += 5, itCM += 5,
\* ++itD, ++itM, ++itN
Advance(it) ==
  [I |-> it.I + 1,
   CX |-> it.CX + CloudStride, CY |-> it.CY + CloudStride,
   CZ |-> it.CZ + CloudStride, CN |-> it.CN + CloudStride,
   CM |-> it.CM + CloudStride,
   D |-> it.D + 1, N |-> it.N + 1, M |-> it.M + 1]

\* extractData is entered on a frame, with some status and maxNoise.
ExtInit ==
  /\ xPts \in PointSeqs /\ xMaxNoise \in MaxNoises /\ xStatus \in StatusSets
  /\ xPc = "setup"
  /\ xIt = << >> /\ xCloud = << >> /\ xDepth = << >> /\ xNoise = << >>
  /\ xMono = << >>

\* Lines 728-809: camera info, the early return when no image topic has a
\* subscriber, the resize of the four data arrays (new elements are 0) and
\* the initial pointers (index 1 is element 0 of an array).
X_Setup ==
  /\ xPc = "setup"
  /\ IF ~(xStatus["MONO_16"] \/ xStatus["DEPTH"] \/ xStatus["NOISE"]
           \/ xStatus["CLOUD"])
       THEN /\ xPc' = "done"
            /\ UNCHANGED << xIt, xCloud, xDepth, xNoise, xMono >>
       ELSE /\ xMono' = [k \in 1..Len(xPts) |-> 0]
            /\ xDepth' = [k \in 1..Len(xPts) |-> 0]
            /\ xNoise' = [k \in 1..Len(xPts) |-> 0]
            /\ xCloud' = [k \in 1..(5 * Len(xPts)) |-> 0]
            /\ xIt' = [I |-> 1, CX |-> 1, CY |-> 2, CZ |-> 3, CN |-> 4,
                       CM |-> 5, D |-> 1, N |-> 1, M |-> 1]
            /\ xPc' = "loop"
  /\ UNCHANGED << xPts, xMaxNoise, xStatus >>
  /\ UNCHANGED << pipeVars, cfgVars, lkVars, tmVars >>

\* One iteration of the loop at lines 810-834.
X_Point ==
  /\ xPc = "loop" /\ xIt.I <= Len(xPts)
  /\ LET p == xPts[xIt.I]
     IN IF Valid(p, xMaxNoise)
          THEN /\ xCloud' = [xCloud EXCEPT ![xIt.CX] = p.x, ![xIt.CY] = p.y,
                                           ![xIt.CZ] = p.z,
                                           ![xIt.CN] = p.noise,
                                           ![xIt.CM] = p.grayValue]
               /\ xDepth' = [xDepth EXCEPT ![xIt.D] = p.z]
               /\ xNoise' = [xNoise EXCEPT ![xIt.N] = p.noise]
               /\ xMono' = [xMono EXCEPT ![xIt.M] = p.grayValue]
          ELSE /\ xCloud' = [xCloud EXCEPT ![xIt.CX] = NaN, ![xIt.CY] = NaN,
                                           ![xIt.CZ] = NaN, ![xIt.CN] = 0,
                                           ![xIt.CM] = p.grayValue]
               /\ xDepth' = [xDepth EXCEPT ![xIt.D] = NaN]
               /\ xNoise' = [xNoise EXCEPT ![xIt.N] = 0]
               /\ xMono' = [xMono EXCEPT ![xIt.M] = p.grayValue]
  /\ xIt' = Advance(xIt)
  /\ UNCHANGED << xPts, xMaxNoise, xStatus, xPc >>
  /\ UNCHANGED << pipeVars, cfgVars, lkVars, tmVars >>

\* i < data.points.size() fails: extractData returns.
X_Exit ==
  /\ xPc = "loop" /\ xIt.I > Len(xPts)
  /\ xPc' = "done"
  /\ UNCHANGED << xPts, xMaxNoise, xStatus, xIt, xCloud, xDepth, xNoise,
                  xMono >>
  /\ UNCHANGED << pipeVars, cfgVars, lkVars, tmVars >>

NextExtract == X_Setup \/ X_Point \/ X_Exit

InitExtract == PipeInit /\ ExtInit /\ CfgIdle /\ LkIdle /\ TmIdle

SpecExtract == InitExtract /\ [][NextExtract]_vars

(* ------------- configuration store: callbackConfig & co --------------- *)

\* max_noise is counted in hundredths (0.07 is 7), the other fields in units.

\* A level is the set of the positions of its set bits: 0x01 is {0},
\* 0x0A is {1, 3}.  Bit(level, i) is level & (1 << i).
LevelBits == 32
AllBits == 0..(LevelBits - 1)
Bit(level, i) == i \in level
Levels == SUBSET (0..4)

\* Use cases of the device and the exposure limits it reports in each.
DefaultUseCase == "MODE_9_5FPS_2000"
UseCases == {DefaultUseCase, "MODE_5_45FPS_500"}
LimitsOf(u) == IF u = DefaultUseCase THEN << 50, 2000 >> ELSE << 50, 500 >>

\* Values a reconfigure request proposes.
ExposureValues == {400, 1000}
NoiseValues == {5, 7}
RangeValues == {2, 3}

\* Launch parameters: the defaults of priv_nh.param(...) and one other
\* setting of automatic_exposure and max_noise.
LaunchSets ==
  [use_case : {DefaultUseCase}, automatic_exposure : BOOLEAN,
   exposure_time : {1000}, max_noise : {70, 7}, range_factor : {2}]

\* Results the device reports for setUseCase, setExposureMode and
\* setExposureTime.
Outcomes == [uc : BOOLEAN, mode : BOOLEAN, exp : BOOLEAN]

\* The constructor's config, configMin, configMax.
ConfigDefault ==
  [use_case |-> DefaultUseCase, exposure_mode |-> 0, exposure_time |-> 1000,
   max_noise |-> 7, range_factor |-> 2]
ConfigMinDefault ==
  [use_case |-> DefaultUseCase, exposure_mode |-> 0, exposure_time |-> 50,
   max_noise |-> 0, range_factor |-> 0]
ConfigMaxDefault ==
  [use_case |-> DefaultUseCase, exposure_mode |-> 1, exposure_time |-> 2000,
   max_noise |-> 10, range_factor |-> 7]

ModeOf(automatic) == IF automatic THEN "AUTOMATIC" ELSE "MANUAL"

\* State of a callbackConfig call: the fields it works on, whether it has
\* returned, and a record of what it did.
CfgStart(st, sn, mn, mx, mem, prop) ==
  [store |-> st, sensor |-> sn, min |-> mn, max |-> mx, member |-> mem,
   ret |-> prop, returned |-> FALSE,
   calls |-> {}, oks |-> {}, committed |-> {}, refreshed |-> FALSE]

\* A use_case block that commits whatever the device answers.
DoUseCaseEager(c, level, ok) ==
  IF c.returned \/ ~Bit(level, 0) THEN c
  ELSE LET sn2 == IF ok.uc THEN [c.sensor EXCEPT !.useCase = c.ret.use_case]
                           ELSE c.sensor
       IN [c EXCEPT !.sensor = sn2, !.calls = @ \cup {"setUseCase"},
                    !.store.use_case = c.ret.use_case,
                    !.committed = @ \cup {"use_case"}]

\* if(level & 0x01): setUseCase() calls cameraDevice->setUseCase and
\* returns whether getCurrentUseCase() is the requested one.
DoUseCase(c, level, ok) ==
  IF c.returned \/ ~Bit(level, 0) THEN c
  ELSE LET sn2 == IF ok.uc THEN [c.sensor EXCEPT !.useCase = c.ret.use_case]
                           ELSE c.sensor
       IN IF sn2.useCase # c.ret.use_case
            THEN [c EXCEPT !.sensor = sn2, !.calls = @ \cup {"setUseCase"},
                           !.ret.use_case = c.store.use_case,
                           !.returned = TRUE]
            ELSE [c EXCEPT !.sensor = sn2, !.calls = @ \cup {"setUseCase"},
                           !.oks = @ \cup {"setUseCase"},
                           !.store.use_case = c.ret.use_case,
                           !.committed = @ \cup {"use_case"}]

\* if(level & 0x02): setExposureMode() succeeds without a device call when
\* the device is in the requested mode already.
DoMode(c, level, ok) ==
  IF c.returned \/ ~Bit(level, 1) THEN c
  ELSE LET newMode == ModeOf(c.ret.exposure_mode = 0)
       IN IF newMode = c.sensor.mode
            THEN [c EXCEPT !.store.exposure_mode = c.ret.exposure_mode,
                           !.committed = @ \cup {"exposure_mode"}]
            ELSE IF ~ok.mode
              THEN [c EXCEPT !.calls = @ \cup {"setExposureMode"},
                             !.ret.exposure_mode = c.store.exposure_mode,
                             !.returned = TRUE]
              ELSE [c EXCEPT !.sensor.mode = newMode,
                             !.calls = @ \cup {"setExposureMode"},
                             !.oks = @ \cup {"setExposureMode"},
                             !.store.exposure_mode = c.ret.exposure_mode,
                             !.committed = @ \cup {"exposure_mode"}]

\* if(level & 0x04): rejected in AUTOMATIC mode, outside getExposureLimits()
\* (setExposure) or when setExposureTime fails.
DoExposure(c, level, ok) ==
  IF c.returned \/ ~Bit(level, 2) THEN c
  ELSE LET lim == LimitsOf(c.sensor.useCase)
           e == c.ret.exposure_time
           reject == [c EXCEPT !.ret.exposure_time = c.store.exposure_time,
                               !.returned = TRUE]
       IN IF c.sensor.mode = "AUTOMATIC" THEN reject
          ELSE IF e < lim[1] \/ e > lim[2] THEN reject
          ELSE IF ~ok.exp
            THEN [reject EXCEPT !.calls = @ \cup {"setExposureTime"}]
            ELSE [c EXCEPT !.sensor.exposure = e,
                           !.calls = @ \cup {"setExposureTime"},
                           !.oks = @ \cup {"setExposureTime"},
                           !.store.exposure_time = e,
                           !.committed = @ \cup {"exposure_time"}]

\* if(level & 0x08) and if(level & 0x10), each under lockStatus
DoNoise(c, level) ==
  IF c.returned \/ ~Bit(level, 3) THEN c
  ELSE [c EXCEPT !.member.maxNoise = c.ret.max_noise,
                 !.store.max_noise = c.ret.max_noise,
                 !.committed = @ \cup {"max_noise"}]
DoRange(c, level) ==
  IF c.returned \/ ~Bit(level, 4) THEN c
  ELSE [c EXCEPT !.member.rangeFactor = c.ret.range_factor,
                 !.store.range_factor = c.ret.range_factor,
                 !.committed = @ \cup {"range_factor"}]

\* if(level & 0x01 || level & 0x02): the limits are read again
DoLimits(c, level) ==
  IF c.returned \/ ~(Bit(level, 0) \/ Bit(level, 1)) THEN c
  ELSE LET lim == LimitsOf(c.sensor.useCase)
       IN [c EXCEPT !.min.exposure_time = lim[1],
                    !.max.exposure_time = lim[2],
                    !.refreshed = TRUE]

\* void callbackConfig(config, level)
CallbackConfig(c, level, ok) ==
  IF level = AllBits THEN [c EXCEPT !.returned = TRUE]
  ELSE DoLimits(DoRange(DoNoise(DoExposure(DoMode(DoUseCase(c, level, ok),
                                                  level, ok),
                                           level, ok),
                                level),
                        level),
                level)

\* Requests: the fields named by level differ from the committed values,
\* the others carry them; every value lies within configMin..configMax as
\* the reconfigure server holds them (it clamps a request before the call).
Choices(flagged, cur, vals, lo, hi) ==
  IF flagged THEN {v \in vals : v # cur /\ lo <= v /\ v <= hi} ELSE {cur}
Proposals(st, mn, mx, level) ==
  [use_case : IF Bit(level, 0) THEN UseCases \ {st.use_case}
                               ELSE {st.use_case},
   exposure_mode : IF Bit(level, 1) THEN {0, 1} \ {st.exposure_mode}
                                    ELSE {st.exposure_mode},
   exposure_time : Choices(Bit(level, 2), st.exposure_time, ExposureValues,
                           mn.exposure_time, mx.exposure_time),
   max_noise : Choices(Bit(level, 3), st.max_noise, NoiseValues,
                       mn.max_noise, mx.max_noise),
   range_factor : Choices(Bit(level, 4), st.range_factor, RangeValues,
                          mn.range_factor, mx.range_factor)]

\* The device's answers that a call with this level can ask for.
OutcomesFor(level) ==
  [uc : IF Bit(level, 0) THEN BOOLEAN ELSE {TRUE},
   mode : IF Bit(level, 1) THEN BOOLEAN ELSE {TRUE},
   exp : IF Bit(level, 2) THEN BOOLEAN ELSE {TRUE}]

\* After the constructor (lines 150-179); the device is not yet opened.
CfgInit ==
  /\ kPc = "new"
  /\ kStore = ConfigDefault /\ kMin = ConfigMinDefault
  /\ kMax = ConfigMaxDefault
  /\ kMember = << >>          \* maxNoise, rangeFactor: set by initialize()
  /\ kSensor = [useCase |-> DefaultUseCase, mode |-> "MANUAL",
                exposure |-> 1000]
  /\ kExpTimes = << >>
  /\ kCall = << >>

\* initialize() with launch parameters par: the device calls at lines
\* 401-422 succeed or fail (dev stands for selectCamera, getCameraSettings,
\* createCameraInfo and the two listener registrations; mode0 is the mode
\* the device is in when opened); then config is set from the parameters, the
\* exposure limits are read, and setCallback makes the server call
\* callbackConfig once with level 0xFFFFFFFF.
Cfg_Initialize ==
  /\ kPc = "new"
  /\ \E par \in LaunchSets, ok \in Outcomes, dev \in BOOLEAN,
        mode0 \in {"AUTOMATIC", "MANUAL"} :
       LET sn1 == [kSensor EXCEPT !.mode = mode0]
           sn2 == IF ok.uc THEN [sn1 EXCEPT !.useCase = par.use_case]
                           ELSE sn1
           ucOk == sn2.useCase = par.use_case
           newMode == ModeOf(par.automatic_exposure)
           modeOk == newMode = sn2.mode \/ ok.mode
           sn3 == IF ucOk /\ modeOk THEN [sn2 EXCEPT !.mode = newMode]
                                    ELSE sn2
           lim == LimitsOf(sn3.useCase)
           expTried == ucOk /\ modeOk /\ ~par.automatic_exposure
           expOk == /\ par.exposure_time >= lim[1]
                    /\ par.exposure_time <= lim[2]
                    /\ ok.exp
           sn4 == IF expTried /\ expOk
                    THEN [sn3 EXCEPT !.exposure = par.exposure_time]
                    ELSE sn3
           good == dev /\ ucOk /\ modeOk /\ (expTried => expOk)
       IN /\ kSensor' = sn4
          /\ kMember' = [maxNoise |-> par.max_noise,
                         rangeFactor |-> par.range_factor]
          /\ IF good
               THEN /\ kStore' =
                         [use_case |-> par.use_case,
                          exposure_mode |->
                            IF par.automatic_exposure THEN 0 ELSE 1,
                          exposure_time |-> par.exposure_time,
                          max_noise |-> par.max_noise,
                          range_factor |-> par.range_factor]
                    /\ kMin' = [kMin EXCEPT !.exposure_time = lim[1]]
                    /\ kMax' = [kMax EXCEPT !.exposure_time = lim[2]]
                    /\ kCall' =
                         [level |-> AllBits, prop |-> kStore',
                          pre |-> kStore',
                          post |-> CallbackConfig(
                                     CfgStart(kStore', sn4, kMin', kMax',
                                              kMember', kStore'),
                                     AllBits, ok)]
                    /\ kPc' = "ready"
               ELSE /\ UNCHANGED << kStore, kMin, kMax, kCall >>
                    /\ kPc' = "failed"
  /\ UNCHANGED kExpTimes
  /\ UNCHANGED << pipeVars, extVars, lkVars, tmVars >>

\* The reconfigure server calls callbackConfig(config, level) and takes the
\* config back.
Cfg_Callback ==
  /\ kPc = "ready"
  /\ \E level \in Levels :
       \E ok \in OutcomesFor(level),
          prop \in Proposals(kStore, kMin, kMax, level) :
         LET c == CallbackConfig(
                    CfgStart(kStore, kSensor, kMin, kMax, kMember, prop),
                    level, ok)
         IN /\ kStore' = c.store /\ kSensor' = c.sensor
            /\ kMin' = c.min /\ kMax' = c.max /\ kMember' = c.member
            /\ kCall' = [level |-> level, prop |-> prop, pre |-> kStore,
                         post |-> c]
  /\ UNCHANGED << kPc, kExpTimes >>
  /\ UNCHANGED << pipeVars, extVars, lkVars, tmVars >>

\* void onNewExposure(newExposureTime): the device, in AUTOMATIC mode,
\* reports the exposure time it has chosen within its limits.
Cfg_NewExposure ==
  /\ kPc = "ready" /\ kSensor.mode = "AUTOMATIC"
  /\ \E e \in ExposureValues :
       /\ LimitsOf(kSensor.useCase)[1] <= e
       /\ e <= LimitsOf(kSensor.useCase)[2]
       /\ kSensor' = [kSensor EXCEPT !.exposure = e]
       /\ IF kExpTimes # << >> /\ e = kExpTimes[1]
            THEN UNCHANGED << kExpTimes, kStore >>
            ELSE /\ kExpTimes' = << e >>
                 /\ kStore' = [kStore EXCEPT !.exposure_time = e]
  /\ UNCHANGED << kPc, kMin, kMax, kMember, kCall >>
  /\ UNCHANGED << pipeVars, extVars, lkVars, tmVars >>

NextConfig == Cfg_Initialize \/ Cfg_Callback \/ Cfg_NewExposure

InitConfig == PipeInit /\ ExtIdle /\ CfgInit /\ LkIdle /\ TmIdle

SpecConfig == InitConfig /\ [][NextConfig]_vars

(* ------------- the mutexes lockData, lockStatus, lockTiming ------------ *)

\* std::mutex lockStatus, lockData, lockTiming;
Mutexes == {"lockData", "lockStatus", "lockTiming"}
\* onNewData, process, callbackTopicStatus, callbackConfig
LkThreads == {"sensor", "proc", "cts", "cfg"}

Holds(t, l) == \E i \in DOMAIN lkHeld[t] : lkHeld[t][i] = l
Free(l) == \A t \in LkThreads : ~Holds(t, l)

\* An unlock that leaves the mutex with its owner.
UnlockNone(held, l) == held

\* m.unlock()
Unlock(held, l) == SelectSeq(held, LAMBDA x : x # l)

\* m.lock() at position from: the thread stays there while m is taken.
LkAcquire(t, l, from, to) ==
  /\ lkPc[t] = from /\ Free(l)
  /\ lkHeld' = [lkHeld EXCEPT ![t] = Append(@, l)]
  /\ lkPc' = [lkPc EXCEPT ![t] = to]

LkRelease(t, l, from, to) ==
  /\ lkPc[t] = from /\ Holds(t, l)
  /\ lkHeld' = [lkHeld EXCEPT ![t] = Unlock(@, l)]
  /\ lkPc' = [lkPc EXCEPT ![t] = to]

LkStep(t, from, to) ==
  /\ lkPc[t] = from
  /\ lkPc' = [lkPc EXCEPT ![t] = to]
  /\ lkHeld' = lkHeld

\* The mutex a thread asks for at a position (the lock() calls of the
\* source, by line; 694r is wait_for taking lockData again on its way out).
Wants ==
  [sensor |-> [s211 |-> "lockTiming", s215 |-> "lockData"],
   proc   |-> [p685 |-> "lockData", p694r |-> "lockData",
               p709 |-> "lockStatus", p715 |-> "lockTiming",
               p721 |-> "lockData"],
   cts    |-> [c248 |-> "lockStatus", c260 |-> "lockTiming"],
   cfg    |-> [k329 |-> "lockStatus", k338 |-> "lockStatus"]]

\* After the constructor and start(): process() is entered, the callbacks
\* are registered and none is running.
LkInit ==
  /\ lkPc = [sensor |-> "idle", proc |-> "p685", cts |-> "idle",
             cfg |-> "idle"]
  /\ lkHeld = [t \in LkThreads |-> << >>]
  /\ lkRun = TRUE
  /\ lkLevel = {}

LkOther == UNCHANGED << pipeVars, extVars, cfgVars, tmVars >>

\* void onNewData(data)
L_S_Call ==
  /\ LkStep("sensor", "idle", "s211")
  /\ UNCHANGED << lkRun, lkLevel >> /\ LkOther
L_S_LockTiming ==
  /\ LkAcquire("sensor", "lockTiming", "s211", "s213")
  /\ UNCHANGED << lkRun, lkLevel >> /\ LkOther
L_S_UnlockTiming ==
  /\ LkRelease("sensor", "lockTiming", "s213", "s215")
  /\ UNCHANGED << lkRun, lkLevel >> /\ LkOther
L_S_LockData ==
  /\ LkAcquire("sensor", "lockData", "s215", "s224")
  /\ UNCHANGED << lkRun, lkLevel >> /\ LkOther
L_S_UnlockData ==
  /\ LkRelease("sensor", "lockData", "s224", "idle")
  /\ UNCHANGED << lkRun, lkLevel >> /\ LkOther

\* void process(): std::unique_lock<std::mutex> lock(lockData);
L_P_Enter ==
  /\ LkAcquire("proc", "lockData", "p685", "p686")
  /\ UNCHANGED << lkRun, lkLevel >> /\ LkOther
\* while(running && ros::ok()); leaving the loop, process() returns and the
\* unique_lock releases lockData
L_P_Loop ==
  /\ IF lkRun THEN LkStep("proc", "p686", "p694")
               ELSE LkRelease("proc", "lockData", "p686", "done")
  /\ UNCHANGED << lkRun, lkLevel >> /\ LkOther
\* wait_for with newData set: it returns true with lockData held
L_P_WaitTake ==
  /\ LkStep("proc", "p694", "p707")
  /\ UNCHANGED << lkRun, lkLevel >> /\ LkOther
\* wait_for with newData clear: it releases lockData and blocks
L_P_WaitBlock ==
  /\ LkRelease("proc", "lockData", "p694", "p694r")
  /\ UNCHANGED << lkRun, lkLevel >> /\ LkOther
\* notified or timed out: wait_for takes lockData again
L_P_WaitRelock ==
  /\ LkAcquire("proc", "lockData", "p694r", "p694x")
  /\ UNCHANGED << lkRun, lkLevel >> /\ LkOther
\* it returns false (iters_since_data++; continue) or true
L_P_WaitReturn ==
  /\ \E to \in {"p686", "p707"} : LkStep("proc", "p694x", to)
  /\ UNCHANGED << lkRun, lkLevel >> /\ LkOther
\* lock.unlock();
L_P_Unlock ==
  /\ LkRelease("proc", "lockData", "p707", "p709")
  /\ UNCHANGED << lkRun, lkLevel >> /\ LkOther
L_P_LockStatus ==
  /\ LkAcquire("proc", "lockStatus", "p709", "p712")
  /\ UNCHANGED << lkRun, lkLevel >> /\ LkOther
L_P_UnlockStatus ==
  /\ LkRelease("proc", "lockStatus", "p712", "p715")
  /\ UNCHANGED << lkRun, lkLevel >> /\ LkOther
L_P_LockTiming ==
  /\ LkAcquire("proc", "lockTiming", "p715", "p719")
  /\ UNCHANGED << lkRun, lkLevel >> /\ LkOther
L_P_UnlockTiming ==
  /\ LkRelease("proc", "lockTiming", "p719", "p721")
  /\ UNCHANGED << lkRun, lkLevel >> /\ LkOther
\* lock.lock();
L_P_Relock ==
  /\ LkAcquire("proc", "lockData", "p721", "p686")
  /\ UNCHANGED << lkRun, lkLevel >> /\ LkOther

\* void callbackTopicStatus()
L_C_Call ==
  /\ LkStep("cts", "idle", "c248")
  /\ UNCHANGED << lkRun, lkLevel >> /\ LkOther
L_C_LockStatus ==
  /\ LkAcquire("cts", "lockStatus", "c248", "c256")
  /\ UNCHANGED << lkRun, lkLevel >> /\ LkOther
\* if(clientsConnected && !isCapturing()) ... else if(...) ...: the start
\* branch resets the timing counters, the other branches go to the unlock
L_C_Decide ==
  /\ \E to \in {"c260", "c275"} : LkStep("cts", "c256", to)
  /\ UNCHANGED << lkRun, lkLevel >> /\ LkOther
L_C_LockTiming ==
  /\ LkAcquire("cts", "lockTiming", "c260", "c264")
  /\ UNCHANGED << lkRun, lkLevel >> /\ LkOther
L_C_UnlockTiming ==
  /\ LkRelease("cts", "lockTiming", "c264", "c266")
  /\ UNCHANGED << lkRun, lkLevel >> /\ LkOther
\* startCapture() / stopCapture(): on a failure running = false
L_C_Capture ==
  /\ \E from \in {"c266", "c275"} : LkStep("cts", from, "c283")
  /\ lkRun' \in {lkRun, FALSE}
  /\ UNCHANGED lkLevel /\ LkOther
L_C_UnlockStatus ==
  /\ LkRelease("cts", "lockStatus", "c283", "idle")
  /\ UNCHANGED << lkRun, lkLevel >> /\ LkOther

\* void callbackConfig(config, level): the blocks of bits 0x01, 0x02 and
\* 0x04 take no mutex; a rejected field returns before line 326
L_K_Call ==
  /\ \E level \in Levels \cup {AllBits}, rejected \in BOOLEAN :
       /\ LkStep("cfg", "idle",
                 IF level = AllBits \/ rejected THEN "k352" ELSE "k326")
       /\ lkLevel' = level
  /\ UNCHANGED lkRun /\ LkOther
\* if(level & 0x08)
L_K_TestNoise ==
  /\ LkStep("cfg", "k326", IF Bit(lkLevel, 3) THEN "k329" ELSE "k335")
  /\ UNCHANGED << lkRun, lkLevel >> /\ LkOther
L_K_LockNoise ==
  /\ LkAcquire("cfg", "lockStatus", "k329", "k332")
  /\ UNCHANGED << lkRun, lkLevel >> /\ LkOther
L_K_UnlockNoise ==
  /\ LkRelease("cfg", "lockStatus", "k332", "k335")
  /\ UNCHANGED << lkRun, lkLevel >> /\ LkOther
\* if(level & 0x10)
L_K_TestRange ==
  /\ LkStep("cfg", "k335", IF Bit(lkLevel, 4) THEN "k338" ELSE "k352")
  /\ UNCHANGED << lkRun, lkLevel >> /\ LkOther
L_K_LockRange ==
  /\ LkAcquire("cfg", "lockStatus", "k338", "k341")
  /\ UNCHANGED << lkRun, lkLevel >> /\ LkOther
L_K_UnlockRange ==
  /\ LkRelease("cfg", "lockStatus", "k341", "k352")
  /\ UNCHANGED << lkRun, lkLevel >> /\ LkOther
L_K_Return ==
  /\ LkStep("cfg", "k352", "idle")
  /\ lkLevel' = {}
  /\ UNCHANGED lkRun /\ LkOther

\* stop(): running = false (or ros::shutdown())
L_Stop ==
  /\ lkRun /\ lkRun' = FALSE
  /\ UNCHANGED << lkPc, lkHeld, lkLevel >> /\ LkOther

LkSensor ==
  \/ L_S_Call \/ L_S_LockTiming \/ L_S_UnlockTiming \/ L_S_LockData
  \/ L_S_UnlockData
LkProcess ==
  \/ L_P_Enter \/ L_P_Loop \/ L_P_WaitTake \/ L_P_WaitBlock
  \/ L_P_WaitRelock \/ L_P_WaitReturn \/ L_P_Unlock \/ L_P_LockStatus
  \/ L_P_UnlockStatus \/ L_P_LockTiming \/ L_P_UnlockTiming \/ L_P_Relock
LkStatus ==
  \/ L_C_Call \/ L_C_LockStatus \/ L_C_Decide \/ L_C_LockTiming
  \/ L_C_UnlockTiming \/ L_C_Capture \/ L_C_UnlockStatus
LkConfig ==
  \/ L_K_Call \/ L_K_TestNoise \/ L_K_LockNoise \/ L_K_UnlockNoise
  \/ L_K_TestRange \/ L_K_LockRange \/ L_K_UnlockRange \/ L_K_Return

NextLocks == LkSensor \/ LkProcess \/ LkStatus \/ LkConfig \/ L_Stop

InitLocks == PipeInit /\ ExtIdle /\ CfgIdle /\ LkInit /\ TmIdle

SpecLocks == InitLocks /\ [][NextLocks]_vars

(* --------------- the timing counters: timings() & co ------------------- *)

\* framesPerTiming (25 in the constructor), scaled down
FramesPerTiming == 2
\* frames the sensor hands over
MaxTimedFrames == 5

\* timings() as called from process() after processTime += (end - start):
\* the counters as it leaves them and, if frame is at a window boundary,
\* what it found in the two accumulators and what it set them to.
Timings(frame, processTime, delayReceived, window) ==
  IF frame # 0 /\ frame % FramesPerTiming = 0
    THEN [frame |-> frame + 1, processTime |-> {}, delayReceived |-> {},
          window |-> [frame |-> frame, processTime |-> processTime,
                      delayReceived |-> delayReceived,
                      after |-> << {}, {} >>]]
    ELSE [frame |-> frame + 1, processTime |-> processTime,
          delayReceived |-> delayReceived, window |-> window]

\* After start(): no capture yet, frame = 0, processTime = 0,
\* delayReceived = 0 (constructor).
TmInit ==
  /\ tmFrame = 0 /\ tmProcessTime = {} /\ tmDelay = {}
  /\ tmCapturing = FALSE /\ tmHanded = 0 /\ tmSens = 0 /\ tmSlot = 0
  /\ tmDone = << >> /\ tmWindow = << >>

TmOther == UNCHANGED << pipeVars, extVars, cfgVars, lkVars >>

\* callbackTopicStatus, a subscriber present and the sensor not capturing:
\* the counters are set to 0 under lockTiming, then startCapture().
T_Start ==
  /\ ~tmCapturing
  /\ tmProcessTime' = {} /\ tmFrame' = 0 /\ tmDelay' = {}
  /\ tmCapturing' = TRUE
  /\ UNCHANGED << tmHanded, tmSens, tmSlot, tmDone, tmWindow >>
  /\ TmOther

\* callbackTopicStatus, no subscriber left: stopCapture().
T_Stop ==
  /\ tmCapturing
  /\ tmCapturing' = FALSE
  /\ UNCHANGED << tmFrame, tmProcessTime, tmDelay, tmHanded, tmSens, tmSlot,
                  tmDone, tmWindow >>
  /\ TmOther

\* onNewData, lines 209-213: delayReceived += the frame's delay.
T_Delay ==
  /\ tmCapturing /\ tmSens = 0 /\ tmHanded < MaxTimedFrames
  /\ tmHanded' = tmHanded + 1
  /\ tmSens' = tmHanded + 1
  /\ tmDelay' = tmDelay \cup {tmHanded + 1}
  /\ UNCHANGED << tmFrame, tmProcessTime, tmCapturing, tmSlot, tmDone,
                  tmWindow >>
  /\ TmOther

\* onNewData, lines 215-225: the frame replaces the one in the slot.
T_Deposit ==
  /\ tmSens # 0
  /\ tmSlot' = tmSens
  /\ tmSens' = 0
  /\ UNCHANGED << tmFrame, tmProcessTime, tmDelay, tmCapturing, tmHanded,
                  tmDone, tmWindow >>
  /\ TmOther

\* process(), lines 694-719: the frame in the slot is taken, extracted and
\* published; then, under lockTiming, its processing time is added and
\* timings() is called.
T_Process ==
  /\ tmSlot # 0
  /\ LET r == Timings(tmFrame, tmProcessTime \cup {tmSlot}, tmDelay,
                      tmWindow)
     IN /\ tmFrame' = r.frame
        /\ tmProcessTime' = r.processTime
        /\ tmDelay' = r.delayReceived
        /\ tmWindow' = r.window
  /\ tmDone' = Append(tmDone, tmSlot)
  /\ tmSlot' = 0
  /\ UNCHANGED << tmCapturing, tmHanded, tmSens >>
  /\ TmOther

NextTiming == T_Start \/ T_Stop \/ T_Delay \/ T_Deposit \/ T_Process

InitTiming == PipeInit /\ ExtIdle /\ CfgIdle /\ LkIdle /\ TmInit

SpecTiming == InitTiming /\ [][NextTiming]_vars

(* ---------------------------- specification ---------------------------- *)

Sensor == S_Begin \/ S_Lock \/ S_Fill
Process ==
  \/ P_Entry \/ P_Loop \/ P_WaitTake \/ P_WaitBlock \/ P_Wake \/ P_Timeout
  \/ P_Extract \/ P_Publish \/ P_Timing \/ P_Relock
Callback == C_Begin \/ C_Start \/ C_Stop \/ C_Return
Supervisor ==
  \/ Sup_Construct \/ Sup_Init \/ Sup_SetRun \/ Sup_Loop \/ Sup_Check
  \/ Sup_StopCap \/ Sup_Clear \/ Sup_Join \/ Sup_Delete \/ Sup_Cooldown

Next == Sensor \/ Process \/ Callback \/ Supervisor \/ Env_Shutdown

Spec == Init /\ [][Next]_vars

\* The life of the first pipeline instance: onInit constructs, starts,
\* watches and, when it finds the instance stalled, stops and destroys it.
SupervisorOnce ==
  \/ (gen = 0 /\ Sup_Construct)
  \/ Sup_Init \/ Sup_SetRun \/ Sup_Loop \/ Sup_Check
  \/ Sup_StopCap \/ Sup_Clear \/ Sup_Join \/ Sup_Delete \/ Sup_Cooldown

\* Scheduling: every thread that can run eventually runs.  The supervisor,
\* the processing thread, and a callback already entered keep taking steps;
\* a thread waiting for lockStatus gets it when it is released again and
\* again.  Nothing forces the environment (new frames, new subscribers,
\* shutdown).
Fairness ==
  /\ WF_vars(SupervisorOnce)
  /\ WF_vars(P_Entry \/ P_Loop \/ P_WaitTake \/ P_WaitBlock \/ P_Wake
                      \/ P_Timeout \/ P_Publish \/ P_Timing \/ P_Relock)
  /\ SF_vars(P_Extract)
  /\ WF_vars(S_Lock \/ S_Fill)
  /\ WF_vars(C_Start \/ C_Stop \/ C_Return)

\* Shutdown is requested from inside only (the failure branch of
\* callbackTopicStatus), not from outside.
NextLive ==
  Sensor \/ Process \/ Callback \/ SupervisorOnce

SpecLive == Init /\ [][NextLive]_vars /\ Fairness


(* ------------------------------- claims -------------------------------- *)

Frames == 1..MaxFrames
SomeStatus == \E t \in Topics : status[t]
Stalled == isd >= dropout_allow_iters /\ iss >= startup_ignore_iters

\* C1: latest-wins hand-off.  Every take swaps out the frame whose deposit
\* completed last (an older, never-taken frame is dropped for good), and no
\* frame is swapped out twice.
Thm_C1 ==
  /\ \A f \in Frames : takes[f] <= 1
  /\ taken # 0 => (taken \in Frames /\ taken = depAtTake)

\* Frame 1 was overwritten by frame 2 before it was taken; the take got 2.
Wit_C1 ==
  /\ procPc = "extract" /\ taken = 2 /\ lastDep = 2
  /\ takes[1] = 0 /\ takes[2] = 1

\* C2: no lost wakeup.  A wait never reports a timeout (blocked -> loop,
\* iters_since_data incremented) while newData is true; and under fairness
\* the frame deposited last is eventually extracted and published, unless
\* the instance stops running first.
Thm_C2 ==
  /\ [][(procPc = "blocked" /\ procPc' = "loop") => ~newData]_vars
  /\ \A f \in Frames :
       (lastDep = f /\ newData /\ running /\ rosok)
         ~> (published = f \/ lastDep # f \/ ~(running /\ rosok))

\* A frame was deposited while the consumer was blocked in wait_for after
\* earlier timeouts.
Wit_C2 == procPc = "blocked" /\ newData /\ isd > 0 /\ lastDep = 1

\* C3: no torn frames.  While extractData/publish run, the local pointer
\* holds the frame exactly as it was taken, in an object of its own; what
\* the cycle published is that frame.
Thm_C3 ==
  /\ procPc \in {"extract", "publish"} =>
       /\ localPtr # NULL /\ localPtr # slotPtr
       /\ taken \in Frames /\ heap[localPtr] = taken
  /\ procPc \in {"timing", "relock"} => published = taken

\* A deposit is writing the slot while the taken frame is being extracted.
Wit_C3 == procPc = "publish" /\ sensPc = "fill" /\ taken = 1 /\ deposited = 2

\* C4: isCurrent() is false exactly when iters_since_data >= 5 and
\* iters_since_start >= 15 (so it is true whenever iters_since_start < 15),
\* and the supervisor's tick enters the restart path exactly then.
Thm_C4 ==
  /\ []((~isCurrent(isd, iss)) <=> Stalled)
  /\ [](iss < startup_ignore_iters => isCurrent(isd, iss))
  /\ [][(supPc = "check" /\ supPc' # "check")
          => (supPc' = "stopcap" <=> Stalled)]_vars

\* The supervisor got "not current" from a started instance.
Wit_C4 == supPc = "stopcap" /\ init = "ok" /\ Stalled

\* C5: on a started instance iters_since_data is the number of wait
\* timeouts reported since the last take (or since initialize()).
Thm_C5 == init = "ok" => isd = consec

\* Three timeouts in a row after a frame had been taken.
Wit_C5 == init = "ok" /\ taken = 1 /\ isd = 3 /\ procPc = "loop"

\* C6: a started instance that stalls is eventually stopped and replaced by
\* a fresh one: the supervisor is never dead, with ROS still up, after it
\* stopped a started instance and before it started the next.
CE_C6 == ~(supPc = "crashed" /\ init = "ok" /\ rosok /\ gen < MaxInstances)

\* C7: restart protocol.  onInit moves only along stop (stopCapture, clear
\* running, join), delete, cooldown, new, start, back to the loop; at most
\* one instance exists; the old processing thread has ended, and the old
\* instance is gone, before the next one is constructed.
RestartOrder ==
  { <<"construct", "init">>, <<"init", "setrun">>, <<"init", "loop">>,
    <<"setrun", "loop">>, <<"loop", "check">>, <<"loop", "exited">>,
    <<"check", "loop">>, <<"check", "stopcap">>, <<"stopcap", "clear">>,
    <<"clear", "join">>, <<"join", "delete">>, <<"delete", "cooldown">>,
    <<"cooldown", "construct">>,
    <<"stopcap", "crashed">>, <<"join", "crashed">>, <<"delete", "crashed">> }

Inv_C7 ==
  /\ alive <= 1
  /\ supPc \in {"join", "delete"} => ~running
  /\ supPc \in {"delete", "cooldown", "construct"} => procPc \in {"none", "done"}
  /\ supPc \in {"cooldown", "construct"} => alive = 0

Thm_C7 ==
  /\ []Inv_C7
  /\ [][supPc' # supPc => <<supPc, supPc'>> \in RestartOrder]_vars

\* The fresh instance exists after a restart; the old thread has ended.
Wit_C7 == gen = 2 /\ supPc = "init" /\ alive = 1 /\ procPc = "none"

\* C8: callbackTopicStatus asks for a start only with a status flag set,
\* for a stop only with none set, and every call that returns without a
\* sensor failure leaves isCapturing() equal to "some status flag is set".
CE_C8 ==
  /\ ctsPc = "start" => SomeStatus
  /\ ctsPc = "stop" => ~SomeStatus
  /\ ctsPost

\* C9: once a start/stopCapture failure is recorded on an instance, running
\* is false on that instance from then on.
CE_C9 == (failedGen # 0 /\ failedGen = gen /\ alive > 0) => ~running

\* C10 as stated: the supervisor does not leave its loop while the instance
\* on which a capture failure was recorded is still the current one.
CE_C10 == ~(supPc = "exited" /\ failedGen # 0 /\ failedGen = gen)

\* C10 amended: a recorded capture failure has requested ROS shutdown, and
\* the supervisor's loop test never succeeds again afterwards.
Thm_C10 == failedGen # 0 => (~rosok /\ ticksDown = 0)

\* onInit has returned; the failed instance was never replaced.
Wit_C10 == supPc = "exited" /\ failedGen = 1 /\ gen = 1 /\ alive = 1

\* C11: cooperative shutdown terminates.  Once stop() has cleared running
\* on an instance whose processing thread was started, the thread leaves at
\* its next loop check (after finishing a cycle in progress, or after the
\* bounded wait timed out), join() returns, and the instance is destroyed
\* only after the thread has ended.
Thm_C11 ==
  /\ [](supPc = "delete" => procPc = "done")
  /\ [][(supPc = "join" /\ procPc = "loop" /\ procPc' # "loop")
          => procPc' = "done"]_vars
  /\ (supPc = "join" /\ procPc # "none")
       ~> (supPc \in {"delete", "cooldown", "crashed"} /\ procPc = "done")

\* stop() has cleared running while the thread sits in the bounded wait with
\* no frame in the slot.
Wit_C11 == supPc = "join" /\ procPc = "blocked" /\ ~newData /\ init = "ok"

\* C12: publication gate.  In every cycle a topic is published exactly when
\* its status flag was set at extraction; every published message was
\* populated from the frame taken in that cycle; every published container
\* has been replaced by a new one; and status does not change between
\* extraction and publication.
Thm_C12 ==
  /\ [](procPc = "timing" =>
          /\ DOMAIN pubMsg = {t \in Topics : cycStatus[t]}
          /\ \A t \in DOMAIN pubMsg :
               pubMsg[t] = taken /\ taken \in Frames /\ msg[t] = EMPTY)
  /\ [][procPc = "publish" => status' = status]_vars

\* Frame 2 went out on CAMERA_INFO and CLOUD only, after a cycle that had
\* filled the image containers from frame 1 without publishing CLOUD.
Wit_C12 ==
  /\ procPc = "timing" /\ taken = 2
  /\ DOMAIN pubMsg = {"CAMERA_INFO", "CLOUD"}
  /\ msg["DEPTH"] = 2

\* C13: per-point extraction.  For every point i that extractData has
\* processed: if depthConfidence is set and noise < maxNoise (strictly),
\* Depth[i] = z, Noise[i] = noise and cloud record i = (x, y, z, noise,
\* gray); otherwise Depth[i] = NaN, Noise[i] = 0 and cloud record i = (NaN,
\* NaN, NaN, 0, gray); Mono16[i] = gray in both cases; record i is the 5
\* floats starting at 5*i (counting from 0).
PointOK(p, mn) == p.depthConfidence # 0 /\ p.noise < mn
Extracted(i) ==
  /\ xPc \in {"loop", "done"} /\ Len(xDepth) = Len(xPts)
  /\ xPc = "loop" => i < xIt.I
Thm_C13 ==
  \A i \in 1..Len(xPts) :
    Extracted(i) =>
      LET p == xPts[i]
          rec == SubSeq(xCloud, 5 * (i - 1) + 1, 5 * (i - 1) + 5)
      IN /\ xMono[i] = p.grayValue
         /\ IF PointOK(p, xMaxNoise)
              THEN /\ xDepth[i] = p.z /\ xNoise[i] = p.noise
                   /\ rec = << p.x, p.y, p.z, p.noise, p.grayValue >>
              ELSE /\ xDepth[i] = NaN /\ xNoise[i] = 0
                   /\ rec = << NaN, NaN, NaN, 0, p.grayValue >>

\* A finished extraction of two points: the first confident with
\* noise == maxNoise (invalid), the second valid.
Wit_C13 ==
  /\ xPc = "done" /\ Len(xPts) = 2 /\ Len(xDepth) = 2
  /\ xPts[1].depthConfidence = 255 /\ xPts[1].noise = xMaxNoise
  /\ xPts[2].depthConfidence = 1 /\ xPts[2].noise < xMaxNoise
  /\ xDepth = << NaN, xPts[2].z >>

(* --------------------------- counter claims ---------------------------- *)

\* The supervisor has not begun to stop the instance: it sleeps between two
\* polls or is about to call isCurrent().
Polling == supPc \in {"loop", "check"}

\* C19 (as stated): once the counters of an instance satisfy the stalled
\* condition they satisfy it in every later state of that instance, until
\* the supervisor stops it.
CE_C19 ==
  [][(init = "ok" /\ gen' = gen /\ Stalled /\ Polling /\ Polling')
       => Stalled']_vars

\* C19 (amended): the counters of an instance leave the stalled condition
\* only when the processing thread takes a deposited frame, which sets
\* iters_since_data to 0; a deposit that is not yet taken, a timeout and
\* every step of the other threads keep it, and iters_since_start stays at
\* or above the threshold.
Thm_C19 ==
  [][(init = "ok" /\ gen' = gen /\ Stalled /\ ~Stalled')
       => /\ newData /\ ~newData'
          /\ isd' = 0 /\ procPc' = "extract"
          /\ iss' = iss]_vars
\* The supervisor found the instance stalled and is about to stop it; the
\* processing thread has taken a frame since, and the instance is current.
Wit_C19 ==
  /\ init = "ok" /\ supPc = "stopcap" /\ running
  /\ procPc = "extract" /\ isd = 0 /\ iss >= startup_ignore_iters
  /\ ~Stalled /\ taken \in Frames

\* C20 (as stated): iters_since_start of a started instance stays within
\* 0..startup_ignore_iters.
CE_C20 ==
  (init = "ok" /\ procPc # "none")
    => (0 <= iss /\ iss <= startup_ignore_iters)

(* ------------------------ supervision claims --------------------------- *)

\* The first instance with no subscriber on any channel, the sensor not
\* capturing, no callbackTopicStatus call in progress and no frame ever
\* handed to onNewData.
IdleInstance ==
  /\ init = "ok" /\ gen = 1 /\ running
  /\ status = NoStatus /\ ~capturing /\ ctsPc = "idle"
  /\ deposited = 0 /\ sensPc = "idle"

\* C21 (as stated): on an idle instance the supervisor's poll finds
\* isCurrent() true, and the supervisor is never on its restart path.
CE_C21 ==
  IdleInstance =>
    /\ supPc = "check" => isCurrent(isd, iss)
    /\ supPc # "stopcap"

\* The supervisor is inside stop(): before stopCapture(), before
\* running = false, or at threadProcess.join().
InStop == supPc \in {"stopcap", "clear", "join"}

\* C22 (as stated): isCurrent() runs only with both counters set by
\* initialize(), and stop() runs only with the camera device created and
\* the processing thread started.
CE_C22 ==
  /\ supPc = "check" => init = "ok"
  /\ InStop => (init # "nodev" /\ procPc # "none")

\* C23 (as stated): once stop() has returned the sensor is not capturing
\* and no onNewData call is depositing a frame into the instance.
CE_C23 == supPc = "delete" => (~capturing /\ sensPc = "idle")

(* --------------------------- extraction claims ------------------------- *)

\* The data array of each image channel.
ChannelData ==
  [MONO_16 |-> xMono, DEPTH |-> xDepth, NOISE |-> xNoise, CLOUD |-> xCloud]

\* C25 (as stated): when extractData returns, the container of every image
\* channel whose status flag is false is as it was on entry (a new, empty
\* message).
CE_C25 ==
  xPc = "done" =>
    \A t \in ImageTopics : ~xStatus[t] => ChannelData[t] = << >>

(* ----------------------------- timing claims --------------------------- *)

\* The last n frames processed.
LastDone(n) ==
  { tmDone[i] : i \in { j \in DOMAIN tmDone : j > Len(tmDone) - n } }

\* C26 (as stated): at a window boundary processTime and delayReceived hold
\* the contributions of exactly the framesPerTiming frames processed last,
\* and timings() sets both to 0.
CE_C26 ==
  (tmWindow # << >> /\ tmWindow.frame = tmFrame - 1)
  => /\ Cardinality(tmWindow.processTime) = FramesPerTiming
     /\ tmWindow.processTime = LastDone(FramesPerTiming)
     /\ tmWindow.delayReceived = LastDone(FramesPerTiming)
     /\ tmWindow.after = << {}, {} >>

(* ----------------------------- mutex claims ---------------------------- *)

\* Thread t is at a lock() call for a mutex that thread u holds.
WaitsOn(t, u) ==
  /\ lkPc[t] \in DOMAIN Wants[t]
  /\ Holds(u, Wants[t][lkPc[t]])
\* Some threads wait for mutexes that only threads among them hold.
WaitCycle ==
  \E S \in SUBSET LkThreads :
    S # {} /\ \A t \in S : \E u \in S : WaitsOn(t, u)

\* C24: a thread holds at most one of the three mutexes, or lockStatus and
\* then lockTiming; a thread that has returned from its function holds
\* none; and no set of threads waits in a cycle for each other's mutexes.
Thm_C24 ==
  /\ \A t \in LkThreads :
       \/ Len(lkHeld[t]) <= 1
       \/ lkHeld[t] = << "lockStatus", "lockTiming" >>
  /\ \A t \in LkThreads : lkPc[t] \in {"idle", "done"} => lkHeld[t] = << >>
  /\ ~WaitCycle
\* callbackTopicStatus holds lockStatus and lockTiming while the other
\* three threads wait for one of them.
Wit_C24 ==
  /\ lkHeld["cts"] = << "lockStatus", "lockTiming" >>
  /\ lkPc["proc"] = "p709" /\ lkPc["sensor"] = "s211"
  /\ lkPc["cfg"] = "k329"
  /\ WaitsOn("proc", "cts") /\ WaitsOn("sensor", "cts")
  /\ WaitsOn("cfg", "cts")

(* ----------------------- configuration store claims -------------------- *)

\* The last callbackConfig call made by the reconfigure server.
Called == kCall # << >> /\ kCall.level # AllBits
OutsideLimits(e, u) == e < LimitsOf(u)[1] \/ e > LimitsOf(u)[2]

\* C14 (as stated): a call with bit 0x04 whose exposure_time is refused for
\* the mode (AUTOMATIC when the exposure block would test it) or for the
\* limits leaves the stored exposure_time as it was, does not call
\* setExposureTime, and hands back the stored exposure_time.
CE_C14 ==
  (Called /\ Bit(kCall.level, 2)
     /\ (kCall.post.sensor.mode = "AUTOMATIC"
           \/ OutsideLimits(kCall.prop.exposure_time,
                            kCall.post.sensor.useCase)))
  => /\ kCall.post.store.exposure_time = kCall.pre.exposure_time
     /\ "setExposureTime" \notin kCall.post.calls
     /\ kCall.post.ret.exposure_time = kCall.post.store.exposure_time

\* The device call behind each of the three device-backed fields.
CallOf ==
  [use_case |-> "setUseCase", exposure_mode |-> "setExposureMode",
   exposure_time |-> "setExposureTime"]

\* C15: for use_case, exposure_mode and exposure_time a call writes the
\* stored field only when the device call for it succeeded, and then with
\* the requested value; when the device call failed the stored field keeps
\* the value it had before the call.
Thm_C15 ==
  Called =>
    \A f \in DOMAIN CallOf :
      /\ f \in kCall.post.committed => CallOf[f] \in kCall.post.oks
      /\ kCall.post.store[f] =
           IF f \in kCall.post.committed THEN kCall.prop[f]
                                         ELSE kCall.pre[f]
      /\ CallOf[f] \in kCall.post.calls \ kCall.post.oks
           => kCall.post.store[f] = kCall.pre[f]
Wit_C15 ==
  /\ Called /\ kCall.level = {0, 1, 2}
  /\ kCall.post.committed = {"use_case"}
  /\ "setExposureMode" \in kCall.post.calls \ kCall.post.oks
  /\ kCall.post.store.use_case # kCall.pre.use_case
  /\ kCall.post.store.exposure_mode = kCall.pre.exposure_mode

\* C16 (as stated): a call that commits use_case or exposure_mode has read
\* the exposure limits again when it returns, so configMin and configMax
\* hold the device's limits.
CE_C16 ==
  (Called /\ kCall.post.committed \cap {"use_case", "exposure_mode"} # {})
  => /\ kCall.post.refreshed
     /\ kCall.post.min.exposure_time = LimitsOf(kCall.post.sensor.useCase)[1]
     /\ kCall.post.max.exposure_time = LimitsOf(kCall.post.sensor.useCase)[2]

\* C17 (as stated): when a call returns, every field of the config handed
\* back equals the committed value of that field.
CE_C17 ==
  Called => \A f \in DOMAIN kCall.post.store :
              kCall.post.ret[f] = kCall.post.store[f]

\* C18 (as stated): after initialize() succeeded, exposure_time, max_noise
\* and range_factor of the stored config lie within configMin..configMax.
CE_C18 ==
  kPc = "ready" =>
    \A f \in {"exposure_time", "max_noise", "range_factor"} :
      kMin[f] <= kStore[f] /\ kStore[f] <= kMax[f]

=============================================================================
